---- MODULE Spec2Model ----
(***************************************************************************)
(* A model of hashmal_lib/plugin_handler.py: the PluginHandler that loads  *)
(* plugins from entry points, enables and disables their docks according   *)
(* to the configuration, assigns shortcuts, builds the plugin menu and     *)
(* routes augmentation hooks, queueing those requested before the initial  *)
(* loading is done.                                                        *)
(*                                                                         *)
(* Plugin names and category names are modelled as integers so that        *)
(* Python's sorted() has an order to follow; class names, hook names and   *)
(* option keys are strings.                                                *)
(***************************************************************************)
EXTENDS Integers, Sequences, FiniteSets, TLC

(* ------------------------------ bounds -------------------------------- *)

\* At most this many connections are kept on one signal of a dock.
MaxConn == 2
\* The 'favorite_plugins' list holds at most this many names.
MaxFavorites == 2
\* At most this many do_augment_hook calls are made before loading is done.
MaxRequests == 2

(* -------------------- the environment of the handler ------------------ *)

\* The plugins that can be installed under the group 'hashmal.plugin'.
\* tool_name = 0 stands for the empty tool_name of a dock class.  The third
\* candidate has no tool_name and an entry point named like the tool of the
\* second one.
Candidates ==
    << [tool_name |-> 1, ep_name |-> 4, cls |-> "A", category |-> <<2, "b">>, augmenters |-> {"h1"}],
       [tool_name |-> 2, ep_name |-> 5, cls |-> "B", category |-> <<1, "a">>, augmenters |-> {"h1", "h2"}],
       [tool_name |-> 0, ep_name |-> 2, cls |-> "C", category |-> <<2, "b">>, augmenters |-> {"h2"}],
       [tool_name |-> 3, ep_name |-> 6, cls |-> "D", category |-> <<3, "c">>, augmenters |-> {"h1"}] >>

\* What iter_entry_points may yield: the installed candidates, in order.
Installations ==
    { <<>>, <<2, 4>>, <<1>>, <<1, 2>>, <<3, 1>>, <<2, 3, 1>> }

\* The plugin names a caller or the configuration mentions; 7 is the name
\* of no candidate plugin.
Names == {1, 2, 7}

\* gui_utils.required_plugins and gui_utils.default_plugins.
required_plugins == <<1>>
default_plugins == {1, 2}

\* The values 'enabled_plugins' takes, besides being unset, hold these names;
\* 'favorite_plugins' holds these.
RequiredOnes == {required_plugins[k] : k \in DOMAIN required_plugins}
FavoriteNames == {1, 2}

\* plugins.base.Category.categories(): (name, description) pairs, unsorted.
CategoryList == << <<2, "b">>, <<3, "c">>, <<1, "a">> >>

\* The do_augment_hook calls that are made: (class_name, hook_name, data,
\* callback), where callback "none" is Python's None and "cb" a callable.
\* Class "X" is the class of no dock and hook "h3" the augmenter of none.
Augmentations ==
    { <<"X", "h1", 1, "cb">>, <<"X", "h1", 1, "none">>, <<"B", "h1", 1, "cb">>,
      <<"X", "h2", 0, "cb">>, <<"B", "h2", 0, "none">>, <<"X", "h3", 1, "cb">> }
OptionKeys == {"enabled_plugins", "favorite_plugins", "other"}

(* ------------------------------ helpers ------------------------------- *)

Range(s) == {s[i] : i \in 1..Len(s)}

\* Sequences over S of length at most n.
SeqsUpTo(S, n) == UNION {[1..k -> S] : k \in 0..n}

\* The augmenter method of the dock made from candidate ep, applied to data.
AugmenterResult(ep, hook_name, data) ==
    IF hook_name = "h1" THEN 2 * data + ep ELSE 3 * data + ep

(* ------------------------------- state -------------------------------- *)

VARIABLES
    pc,                     \* "init", "loading", "done" or "exited"
    entry_points,           \* what iter_entry_points yields, in order
    loaded_plugins,         \* self.loaded_plugins, each with its dock
    plugins_loaded,         \* self.plugins_loaded
    waiting_augmentations,  \* self.waiting_augmentations
    enabled_option,         \* config 'enabled_plugins': <<>> unset, <<S>> set
    favorite_option,        \* config 'favorite_plugins' (unset reads as [])
    exit_status,            \* status of sys.exit, 0 while running
    requested,              \* history: the do_augment_hook calls made before loading was done
    last,                   \* history: the last call made on the handler
    dispatched,             \* history: augmentations the last call consulted plugins for
    trace,                  \* history: augmenter and callback calls of the last call
    menu,                   \* submenus the last create_menu added
    raised                  \* index of the dock the last call raised, 0 for none

vars == << pc, entry_points, loaded_plugins, plugins_loaded, waiting_augmentations,
           enabled_option, favorite_option, exit_status, requested, last,
           dispatched, trace, menu, raised >>

\* A call on the handler: its name and the arguments it was given.
Call(op, arg, flag) ==
    [op |-> op, arg |-> arg, flag |-> flag, key |-> "", augmentation |-> <<>>]

EnabledOptions == {<<>>} \cup {<<S>> : S \in SUBSET (Names \ RequiredOnes)}

Init ==
    /\ pc = "init"
    /\ entry_points \in Installations
    /\ loaded_plugins = <<>>
    /\ plugins_loaded = FALSE
    /\ waiting_augmentations = <<>>
    /\ enabled_option \in EnabledOptions
    /\ favorite_option = <<>>
    /\ exit_status = 0
    /\ requested = <<>>
    /\ last = Call("__init__", 0, FALSE)
    /\ dispatched = <<>>
    /\ trace = <<>>
    /\ menu = <<>>
    /\ raised = 0

(* --------------------------- get_plugin ------------------------------- *)

LoadedNames(plugins) == {plugins[i].name : i \in 1..Len(plugins)}

\* get_plugin returning the loop variable after the loop: the last plugin
\* when no name matches.
get_plugin_last(plugins, plugin_name) ==
    IF \E i \in 1..Len(plugins) : plugins[i].name = plugin_name
    THEN CHOOSE i \in 1..Len(plugins) :
            /\ plugins[i].name = plugin_name
            /\ \A j \in 1..(i - 1) : plugins[j].name # plugin_name
    ELSE Len(plugins)

\* Index of the first loaded plugin with this name, 0 for None.
get_plugin(plugins, plugin_name) ==
    IF \E i \in 1..Len(plugins) : plugins[i].name = plugin_name
    THEN CHOOSE i \in 1..Len(plugins) :
            /\ plugins[i].name = plugin_name
            /\ \A j \in 1..(i - 1) : plugins[j].name # plugin_name
    ELSE 0

(* ------------------------ assign_dock_shortcuts ----------------------- *)

\* favorites.index(name): the first index, counted from 0.
IndexOf(favorites, name) ==
    (CHOOSE i \in 1..Len(favorites) :
        /\ favorites[i] = name
        /\ \A j \in 1..(i - 1) : favorites[j] # name) - 1

\* The shortcut numbered by the index itself, from 0.
ShortcutFromZero(favorites, name) ==
    IF name \in Range(favorites)
    THEN <<"Alt+", IndexOf(favorites, name)>>
    ELSE <<>>

\* 'Alt+' + str(1 + favorites.index(name)) if name in favorites else ''
ShortcutFor(favorites, name) ==
    IF name \in Range(favorites)
    THEN <<"Alt+", 1 + IndexOf(favorites, name)>>
    ELSE <<>>

assign_dock_shortcuts(plugins, favorites) ==
    [i \in 1..Len(plugins) |->
        [plugins[i] EXCEPT !.shortcut = ShortcutFor(favorites, plugins[i].name),
                           !.action_enabled = plugins[i].is_enabled,
                           !.action_visible = plugins[i].is_enabled]]

(* -------------------------- set_dock_signals -------------------------- *)

\* disconnect() of a signal with no connection raises TypeError, which skips
\* the second disconnect.
set_dock_signals(dock, do_connect) ==
    IF do_connect
    THEN [dock EXCEPT !.needsFocus = @ + 1, !.statusMessage = @ + 1]
    ELSE IF dock.needsFocus = 0
         THEN dock
         ELSE [dock EXCEPT !.needsFocus = 0, !.statusMessage = 0]

(* ------------------------- set_plugin_enabled ------------------------- *)

IsRequired(plugin_name) == plugin_name \in Range(required_plugins)

\* set_plugin_enabled without the check for required plugins.
set_plugin_enabled_unchecked(plugins, favorites, plugin_name, is_enabled) ==
    LET p == get_plugin(plugins, plugin_name) IN
    IF p = 0 THEN plugins
    ELSE LET d1 == set_dock_signals(plugins[p], is_enabled)
             d2 == [d1 EXCEPT !.is_enabled = is_enabled]
             d3 == IF ~is_enabled THEN [d2 EXCEPT !.visible = FALSE] ELSE d2
         IN assign_dock_shortcuts([plugins EXCEPT ![p] = d3], favorites)

set_plugin_enabled(plugins, favorites, plugin_name, is_enabled) ==
    LET p == get_plugin(plugins, plugin_name) IN
    IF p = 0 THEN plugins
    ELSE IF ~is_enabled /\ IsRequired(plugin_name) THEN plugins
    ELSE LET d1 == set_dock_signals(plugins[p], is_enabled)
             d2 == [d1 EXCEPT !.is_enabled = is_enabled]
             d3 == IF ~is_enabled THEN [d2 EXCEPT !.visible = FALSE] ELSE d2
         IN assign_dock_shortcuts([plugins EXCEPT ![p] = d3], favorites)

(* ----------------------- update_enabled_plugins ----------------------- *)

\* config.get_option('enabled_plugins', default_plugins)
EnabledConfig(opt) == IF opt = <<>> THEN default_plugins ELSE opt[1]

\* The loop over loaded_plugins, from position k on.  The names visited are
\* those of the list the loop started with; set_plugin_enabled changes no name.
RECURSIVE UpdateLoop(_, _, _, _)
UpdateLoop(plugins, favorites, enabled_plugins, k) ==
    IF k > Len(plugins) THEN plugins
    ELSE UpdateLoop(
            set_plugin_enabled(plugins, favorites, plugins[k].name,
                               plugins[k].name \in enabled_plugins),
            favorites, enabled_plugins, k + 1)

update_enabled_plugins(plugins, favorites, opt) ==
    UpdateLoop(plugins, favorites, EnabledConfig(opt), 1)

\* No signal of any dock holds more connections than the model keeps.
WithinConn(plugins) ==
    \A i \in 1..Len(plugins) :
        plugins[i].needsFocus <= MaxConn /\ plugins[i].statusMessage <= MaxConn

(* --------------------------- bring_to_front --------------------------- *)

\* bring_to_front without the check of dock.is_enabled.
bring_to_front_unchecked(plugins, i) ==
    [plugins |-> [plugins EXCEPT ![i].visible = TRUE], raised |-> i]

\* The plugins after bring_to_front(dock) and the dock it raised, 0 for none.
bring_to_front(plugins, i) ==
    IF ~plugins[i].is_enabled
    THEN [plugins |-> plugins, raised |-> 0]
    ELSE [plugins |-> [plugins EXCEPT ![i].visible = TRUE], raised |-> i]

(* --------------------------- do_augment_hook -------------------------- *)

\* The loop skipping the docks that are not enabled, as add_plugin_actions does.
RECURSIVE ConsultEnabledLoop(_, _, _, _, _, _)
ConsultEnabledLoop(plugins, k, class_name, hook_name, data, callback) ==
    IF k > Len(plugins) THEN <<>>
    ELSE IF ~plugins[k].is_enabled \/ class_name = plugins[k].cls
    THEN ConsultEnabledLoop(plugins, k + 1, class_name, hook_name, data, callback)
    ELSE IF hook_name \in plugins[k].augmenters
    THEN LET result == AugmenterResult(plugins[k].ep, hook_name, data)
             called == << <<"augmenter", plugins[k].ep, hook_name, data, result>> >>
             back == IF callback # "none" THEN << <<"callback", result>> >> ELSE <<>>
         IN called \o back
               \o ConsultEnabledLoop(plugins, k + 1, class_name, hook_name, result, callback)
    ELSE ConsultEnabledLoop(plugins, k + 1, class_name, hook_name, data, callback)

\* The loop over loaded_plugins of a call made once plugins_loaded is True,
\* from position k on: the augmenter and callback calls it makes, in order.
RECURSIVE ConsultLoop(_, _, _, _, _, _)
ConsultLoop(plugins, k, class_name, hook_name, data, callback) ==
    IF k > Len(plugins) THEN <<>>
    ELSE IF class_name = plugins[k].cls
    THEN ConsultLoop(plugins, k + 1, class_name, hook_name, data, callback)
    ELSE IF hook_name \in plugins[k].augmenters
    THEN LET result == AugmenterResult(plugins[k].ep, hook_name, data)
             called == << <<"augmenter", plugins[k].ep, hook_name, data, result>> >>
             back == IF callback # "none" THEN << <<"callback", result>> >> ELSE <<>>
         IN called \o back
               \o ConsultLoop(plugins, k + 1, class_name, hook_name, result, callback)
    ELSE ConsultLoop(plugins, k + 1, class_name, hook_name, data, callback)

\* do_augment_hook queueing every request, also one already queued.
do_augment_hook_requeue(loaded, plugins, waiting, augmentation) ==
    IF ~loaded
    THEN [waiting |-> Append(waiting, augmentation),
          dispatched |-> <<>>,
          trace |-> <<>>]
    ELSE [waiting |-> waiting,
          dispatched |-> <<augmentation>>,
          trace |-> ConsultLoop(plugins, 1, augmentation[1], augmentation[2],
                                augmentation[3], augmentation[4])]

\* One call do_augment_hook(*augmentation): the queue after it, the
\* augmentations it consulted plugins for, and the calls it made.
do_augment_hook(loaded, plugins, waiting, augmentation) ==
    IF ~loaded
    THEN [waiting |-> IF augmentation \in Range(waiting)
                      THEN waiting
                      ELSE Append(waiting, augmentation),
          dispatched |-> <<>>,
          trace |-> <<>>]
    ELSE [waiting |-> waiting,
          dispatched |-> <<augmentation>>,
          trace |-> ConsultLoop(plugins, 1, augmentation[1], augmentation[2],
                                augmentation[3], augmentation[4])]

\* for i in self.waiting_augmentations: self.do_augment_hook(*i)
RECURSIVE DrainLoop(_, _, _, _)
DrainLoop(loaded, plugins, waiting, k) ==
    IF k > Len(waiting) THEN [dispatched |-> <<>>, trace |-> <<>>]
    ELSE LET one == do_augment_hook(loaded, plugins, waiting, waiting[k])
             rest == DrainLoop(loaded, plugins, one.waiting, k + 1)
         IN [dispatched |-> one.dispatched \o rest.dispatched,
             trace |-> one.trace \o rest.trace]

(* ----------------------------- create_menu ---------------------------- *)

\* sorted() of a list of numbers: insertion sort.
RECURSIVE Insert(_, _)
Insert(sorted, x) ==
    IF sorted = <<>> THEN <<x>>
    ELSE IF x < Head(sorted)
    THEN <<x>> \o sorted
    ELSE <<Head(sorted)>> \o Insert(Tail(sorted), x)

\* The list as it is, not sorted.
Unsorted(s) == s

RECURSIVE Sorted(_)
Sorted(s) ==
    IF s = <<>> THEN <<>>
    ELSE Insert(Sorted(SubSeq(s, 1, Len(s) - 1)), s[Len(s)])

\* sorted(plugins, key = lambda x: x.name): stable, equal names keep their order.
RECURSIVE InsertByName(_, _)
InsertByName(sorted, plugin) ==
    IF sorted = <<>> THEN <<plugin>>
    ELSE IF plugin.name < Head(sorted).name
    THEN <<plugin>> \o sorted
    ELSE <<Head(sorted)>> \o InsertByName(Tail(sorted), plugin)

RECURSIVE SortedByName(_)
SortedByName(s) ==
    IF s = <<>> THEN <<>>
    ELSE InsertByName(SortedByName(SubSeq(s, 1, Len(s) - 1)), s[Len(s)])

\* gui_utils.add_shortcuts: one label per item, in the same order, the item
\* with an accelerator mark.
add_shortcuts(items) == [i \in 1..Len(items) |-> <<"&", items[i]>>]

\* sorted([x[0] for x in Category.categories()])
SortedCategories == Sorted([i \in 1..Len(CategoryList) |-> CategoryList[i][1]])

\* _categories[c]: the loaded plugins of category c, in load order.
PluginsOfCategory(plugins, c) ==
    SelectSeq(plugins, LAMBDA plugin : plugin.category[1] = c)

\* The loop over categories.keys(), from position k on: the submenus added,
\* each with the toggle-view actions added to it (named by their plugin's ep).
RECURSIVE MenuLoop(_, _, _)
MenuLoop(plugins, labels, k) ==
    IF k > Len(labels) THEN <<>>
    ELSE LET members == PluginsOfCategory(plugins, SortedCategories[k])
             ordered == SortedByName(members)
         IN IF Len(members) = 0
            THEN MenuLoop(plugins, labels, k + 1)
            ELSE << [title |-> labels[k],
                     actions |-> [i \in 1..Len(ordered) |-> ordered[i].ep]] >>
                    \o MenuLoop(plugins, labels, k + 1)

create_menu(plugins) == MenuLoop(plugins, add_shortcuts(SortedCategories), 1)

(* ------------------------------ load_plugins -------------------------- *)

\* plugin_instance.name = dock_tool_name if dock_tool_name else entry_point.name
PluginNameOf(c) == IF c.tool_name # 0 THEN c.tool_name ELSE c.ep_name

\* The plugin instance and its dock right after instantiate_dock.
NewPlugin(ep, is_enabled) ==
    [ep |-> ep,
     name |-> PluginNameOf(Candidates[ep]),
     cls |-> Candidates[ep].cls,
     category |-> Candidates[ep].category,
     augmenters |-> Candidates[ep].augmenters,
     is_enabled |-> is_enabled,
     visible |-> FALSE,
     needsFocus |-> 0,
     statusMessage |-> 0,
     shortcut |-> <<>>,
     action_enabled |-> TRUE,
     action_visible |-> TRUE]

\* The check of the required plugins left out.
MissingRequiredSkipped(plugins, k) == 0

\* The first name of required_plugins that no loaded plugin has, 0 for none.
RECURSIVE MissingRequired(_, _)
MissingRequired(plugins, k) ==
    IF k > Len(required_plugins) THEN 0
    ELSE IF required_plugins[k] \notin LoadedNames(plugins)
    THEN required_plugins[k]
    ELSE MissingRequired(plugins, k + 1)

(* ------------------------------- actions ------------------------------ *)

Quiet == /\ dispatched' = <<>>
         /\ trace' = <<>>
         /\ menu' = <<>>
         /\ raised' = 0

\* One iteration of the loop over the entry points.  The dock's constructor
\* decides the dock's first is_enabled.
LoadEntryPoint ==
    /\ pc \in {"init", "loading"}
    /\ Len(loaded_plugins) < Len(entry_points)
    /\ \E is_enabled \in BOOLEAN :
          /\ loaded_plugins' =
                Append(loaded_plugins,
                       NewPlugin(entry_points[Len(loaded_plugins) + 1], is_enabled))
          /\ last' = Call("load_entry_point", Len(loaded_plugins) + 1, is_enabled)
    /\ pc' = "loading"
    /\ Quiet
    /\ UNCHANGED << entry_points, plugins_loaded, waiting_augmentations, enabled_option,
                    favorite_option, exit_status, requested >>

\* The rest of load_plugins, after the last entry point.
FinishLoad ==
    /\ pc \in {"init", "loading"}
    /\ Len(loaded_plugins) = Len(entry_points)
    /\ last' = Call("load_plugins", 0, FALSE)
    /\ menu' = <<>>
    /\ raised' = 0
    /\ IF MissingRequired(loaded_plugins, 1) # 0
       THEN /\ pc' = "exited"
            /\ exit_status' = 1
            /\ dispatched' = <<>>
            /\ trace' = <<>>
            /\ UNCHANGED << loaded_plugins, plugins_loaded >>
       ELSE LET updated == update_enabled_plugins(loaded_plugins, favorite_option,
                                                  enabled_option)
                drained == DrainLoop(TRUE, updated, waiting_augmentations, 1)
            IN /\ loaded_plugins' = updated
               /\ WithinConn(loaded_plugins')
               /\ plugins_loaded' = TRUE
               /\ dispatched' = drained.dispatched
               /\ trace' = drained.trace
               /\ pc' = "done"
               /\ UNCHANGED exit_status
    /\ UNCHANGED << entry_points, waiting_augmentations, enabled_option, favorite_option,
                    requested >>

Running == pc \in {"init", "done"}

SetPluginEnabled ==
    /\ Running
    /\ \E plugin_name \in Names, is_enabled \in BOOLEAN :
          LET after == set_plugin_enabled(loaded_plugins, favorite_option,
                                          plugin_name, is_enabled)
          IN             /\ loaded_plugins' = after
             /\ WithinConn(loaded_plugins')
             /\ last' = Call("set_plugin_enabled", plugin_name, is_enabled)
    /\ Quiet
    /\ UNCHANGED << pc, entry_points, plugins_loaded, waiting_augmentations,
                    enabled_option, favorite_option, exit_status, requested >>

UpdateEnabledPlugins ==
    /\ Running
    /\ LET after == update_enabled_plugins(loaded_plugins, favorite_option, enabled_option)
       IN          /\ loaded_plugins' = after
          /\ WithinConn(loaded_plugins')
    /\ last' = Call("update_enabled_plugins", 0, FALSE)
    /\ Quiet
    /\ UNCHANGED << pc, entry_points, plugins_loaded, waiting_augmentations,
                    enabled_option, favorite_option, exit_status, requested >>

AssignDockShortcuts ==
    /\ Running
    /\ loaded_plugins' = assign_dock_shortcuts(loaded_plugins, favorite_option)
    /\ last' = Call("assign_dock_shortcuts", 0, FALSE)
    /\ Quiet
    /\ UNCHANGED << pc, entry_points, plugins_loaded, waiting_augmentations,
                    enabled_option, favorite_option, exit_status, requested >>

\* on_option_changed(key), the plugins after it under the configuration it reads.
on_option_changed(plugins, favorites, opt, key) ==
    IF key = "enabled_plugins"
    THEN update_enabled_plugins(plugins, favorites, opt)
    ELSE IF Len(plugins) > 0 /\ key = "favorite_plugins"
    THEN assign_dock_shortcuts(plugins, favorites)
    ELSE plugins

\* The configuration emits optionChanged(key); the value the handler then
\* reads for that key is whatever the configuration holds by now.
OnOptionChanged ==
    /\ Running
    /\ \E key \in OptionKeys :
          /\ \/ /\ key = "enabled_plugins"
                /\ enabled_option' \in EnabledOptions
                /\ UNCHANGED favorite_option
             \/ /\ key = "favorite_plugins"
                /\ favorite_option' \in SeqsUpTo(FavoriteNames, MaxFavorites)
                /\ UNCHANGED enabled_option
             \/ /\ key = "other"
                /\ UNCHANGED << enabled_option, favorite_option >>
          /\ LET after == on_option_changed(loaded_plugins, favorite_option',
                                            enabled_option', key)
             IN                /\ loaded_plugins' = after
                /\ WithinConn(loaded_plugins')
          /\ last' = [Call("on_option_changed", 0, FALSE) EXCEPT !.key = key]
    /\ Quiet
    /\ UNCHANGED << pc, entry_points, plugins_loaded, waiting_augmentations,
                    exit_status, requested >>

BringToFront ==
    /\ Running
    /\ \E i \in 1..Len(loaded_plugins) :
          LET after == bring_to_front(loaded_plugins, i)
          IN /\ loaded_plugins' = after.plugins
             /\ raised' = after.raised
             /\ last' = Call("bring_to_front", i, FALSE)
    /\ dispatched' = <<>>
    /\ trace' = <<>>
    /\ menu' = <<>>
    /\ UNCHANGED << pc, entry_points, plugins_loaded, waiting_augmentations,
                    enabled_option, favorite_option, exit_status, requested >>

\* A dock emits needsFocus: every connection made by set_dock_signals calls
\* bring_to_front for that dock.
NeedsFocus ==
    /\ Running
    /\ \E i \in 1..Len(loaded_plugins) :
          LET after == IF loaded_plugins[i].needsFocus > 0
                       THEN bring_to_front(loaded_plugins, i)
                       ELSE [plugins |-> loaded_plugins, raised |-> 0]
          IN /\ loaded_plugins' = after.plugins
             /\ raised' = after.raised
             /\ last' = Call("needsFocus", i, FALSE)
    /\ dispatched' = <<>>
    /\ trace' = <<>>
    /\ menu' = <<>>
    /\ UNCHANGED << pc, entry_points, plugins_loaded, waiting_augmentations,
                    enabled_option, favorite_option, exit_status, requested >>

DoAugmentHook ==
    /\ pc # "exited"
    /\ plugins_loaded \/ Len(requested) < MaxRequests
    /\ \E augmentation \in Augmentations :
          LET r == do_augment_hook(plugins_loaded, loaded_plugins,
                                   waiting_augmentations, augmentation)
          IN /\ waiting_augmentations' = r.waiting
             /\ dispatched' = r.dispatched
             /\ trace' = r.trace
             /\ requested' = IF plugins_loaded THEN requested
                             ELSE Append(requested, augmentation)
             /\ last' = [Call("do_augment_hook", 0, FALSE)
                            EXCEPT !.augmentation = augmentation]
    /\ menu' = <<>>
    /\ raised' = 0
    /\ UNCHANGED << pc, entry_points, loaded_plugins, plugins_loaded, enabled_option,
                    favorite_option, exit_status >>

CreateMenu ==
    /\ Running
    /\ menu' = create_menu(loaded_plugins)
    /\ last' = Call("create_menu", 0, FALSE)
    /\ dispatched' = <<>>
    /\ trace' = <<>>
    /\ raised' = 0
    /\ UNCHANGED << pc, entry_points, loaded_plugins, plugins_loaded,
                    waiting_augmentations, enabled_option, favorite_option,
                    exit_status, requested >>

\* The handler in use: loading, the configuration, the docks and the menu.
Next ==
    \/ LoadEntryPoint
    \/ FinishLoad
    \/ SetPluginEnabled
    \/ UpdateEnabledPlugins
    \/ AssignDockShortcuts
    \/ OnOptionChanged
    \/ BringToFront
    \/ NeedsFocus
    \/ CreateMenu

Spec == Init /\ [][Next]_vars

\* The handler as the augmentation hooks see it: loading, and the requests
\* made before, during and after it.
NextHooks ==
    \/ LoadEntryPoint
    \/ FinishLoad
    \/ DoAugmentHook

SpecHooks == Init /\ [][NextHooks]_vars

(* ------------------------------ properties ---------------------------- *)

Loaded == 1..Len(loaded_plugins)

RequiredNames == {required_plugins[k] : k \in 1..Len(required_plugins)}

\* The dock of a plugin as instantiate_dock left it.
Untouched(plugin) == plugin = NewPlugin(plugin.ep, plugin.is_enabled)

\* C1: load_plugins exits with status 1 when a required plugin is missing,
\* before update_enabled_plugins touches a dock, before plugins_loaded
\* becomes True and before a queued augmentation is dispatched; and when
\* load_plugins completes every required name is the name of a loaded plugin.
C1_RequiredOrExit ==
    /\ (pc = "exited") <=> (exit_status = 1)
    /\ exit_status \in {0, 1}
    /\ pc = "exited" =>
          /\ \E r \in RequiredNames : \A i \in Loaded : loaded_plugins[i].name # r
          /\ Len(loaded_plugins) = Len(entry_points)
          /\ \A i \in Loaded : Untouched(loaded_plugins[i])
          /\ ~plugins_loaded
          /\ dispatched = <<>>
          /\ trace = <<>>
    /\ (pc = "done") <=> plugins_loaded
    /\ plugins_loaded =>
          \A r \in RequiredNames : \E i \in Loaded : loaded_plugins[i].name = r

\* load_plugins has exited with augmentations queued and with docks that
\* update_enabled_plugins would have changed.
C1_Witness ==
    /\ pc = "exited"
    /\ Len(waiting_augmentations) > 0
    /\ \E i \in Loaded : loaded_plugins[i].name \in EnabledConfig(enabled_option)

\* What update_enabled_plugins makes of the docks when the configuration
\* names only loaded plugins.
KnownOnly(opt) == << EnabledConfig(opt) \cap {loaded_plugins[i].name : i \in Loaded} >>

\* C2: the names of the enabled docks are names of loaded plugins, and a
\* name that matches no loaded plugin changes no dock: set_plugin_enabled
\* with such a name leaves every dock as it was, and update_enabled_plugins
\* does what it would do with such names removed from 'enabled_plugins'.
C2_UnknownNamesChangeNothing ==
    [][ /\ {loaded_plugins'[i].name : i \in {j \in 1..Len(loaded_plugins') :
                                                loaded_plugins'[j].is_enabled}}
              \subseteq {PluginNameOf(Candidates[entry_points[i]]) :
                            i \in 1..Len(loaded_plugins')}
        /\ (/\ last'.op = "set_plugin_enabled"
            /\ \A i \in Loaded : loaded_plugins[i].name # last'.arg)
              => loaded_plugins' = loaded_plugins
        /\ (\/ last'.op = "update_enabled_plugins"
            \/ last'.op = "on_option_changed" /\ last'.key = "enabled_plugins")
              => loaded_plugins' =
                    update_enabled_plugins(loaded_plugins, favorite_option',
                                           KnownOnly(enabled_option'))
      ]_vars

\* set_plugin_enabled(7, True) was called with plugins loaded, one of them
\* disabled, while 'enabled_plugins' names 7 as well.
C2_Witness ==
    /\ pc = "done"
    /\ last.op = "set_plugin_enabled"
    /\ last.arg = 7
    /\ last.flag
    /\ 7 \in EnabledConfig(enabled_option)
    /\ \E i \in Loaded : ~loaded_plugins[i].is_enabled

\* C3: no call disables a required plugin: the dock of a plugin whose name
\* is in required_plugins never goes from enabled to disabled, is never
\* hidden and never loses a connection of needsFocus or statusMessage.
C3_RequiredNeverDisabled ==
    [][ \A i \in Loaded :
           loaded_plugins[i].name \in RequiredNames =>
              /\ loaded_plugins[i].is_enabled => loaded_plugins'[i].is_enabled
              /\ loaded_plugins[i].visible => loaded_plugins'[i].visible
              /\ loaded_plugins'[i].needsFocus >= loaded_plugins[i].needsFocus
              /\ loaded_plugins'[i].statusMessage >= loaded_plugins[i].statusMessage
      ]_vars

\* set_plugin_enabled(1, False) was called on the required plugin 1, whose
\* dock is enabled, visible and connected.
C3_Witness ==
    /\ last.op = "set_plugin_enabled"
    /\ last.arg = 1
    /\ ~last.flag
    /\ \E i \in Loaded :
          /\ loaded_plugins[i].name = 1
          /\ loaded_plugins[i].is_enabled
          /\ loaded_plugins[i].visible
          /\ loaded_plugins[i].needsFocus > 0

\* The requests of s without the repetitions: each at its first place.
FirstPlaces(s) == {i \in 1..Len(s) : \A j \in 1..(i - 1) : s[j] # s[i]}

WithoutRepetitions(s) ==
    [k \in 1..Cardinality(FirstPlaces(s)) |->
        s[CHOOSE i \in FirstPlaces(s) :
              Cardinality({j \in FirstPlaces(s) : j <= i}) = k]]

\* The docks a call consults: those of another class that augment the hook,
\* in load order.
Consulted(augmentation) ==
    SelectSeq(loaded_plugins,
              LAMBDA plugin : /\ plugin.cls # augmentation[1]
                              /\ augmentation[2] \in plugin.augmenters)

\* The data after the first k consulted docks.
DataAfter(augmentation) ==
    LET docks == Consulted(augmentation)
        D[k \in 0..Len(docks)] ==
            IF k = 0 THEN augmentation[3]
            ELSE AugmenterResult(docks[k].ep, augmentation[2], D[k - 1])
    IN D

\* The calls a dispatched augmentation is to make.
ExpectedCalls(augmentation) ==
    LET docks == Consulted(augmentation)
        D == DataAfter(augmentation)
        Augmenter(k) == <<"augmenter", docks[k].ep, augmentation[2], D[k - 1], D[k]>>
    IN IF augmentation[4] = "none"
       THEN [n \in 1..Len(docks) |-> Augmenter(n)]
       ELSE [n \in 1..(2 * Len(docks)) |->
                IF n % 2 = 1 THEN Augmenter((n + 1) \div 2)
                ELSE <<"callback", D[n \div 2]>>]

RECURSIVE ExpectedCallsOfAll(_)
ExpectedCallsOfAll(augmentations) ==
    IF augmentations = <<>> THEN <<>>
    ELSE ExpectedCalls(Head(augmentations)) \o ExpectedCallsOfAll(Tail(augmentations))

\* C4: while plugins_loaded is False a do_augment_hook call calls no
\* augmenter and no callback and only queues its tuple, once; when
\* load_plugins completes, with every entry point loaded and plugins_loaded
\* True, each queued augmentation is dispatched exactly once, in the order
\* in which it was first requested.
C4_DeferredUntilLoaded ==
    /\ ~plugins_loaded => dispatched = <<>> /\ trace = <<>>
    /\ waiting_augmentations = WithoutRepetitions(requested)
    /\ (last.op = "load_plugins" /\ pc = "done") =>
          /\ plugins_loaded
          /\ Len(loaded_plugins) = Len(entry_points)
          /\ dispatched = WithoutRepetitions(requested)
          /\ trace = ExpectedCallsOfAll(WithoutRepetitions(requested))

\* load_plugins completed after two requests, the second a repetition of
\* the first, and the one queued augmentation made calls.
C4_Witness ==
    /\ last.op = "load_plugins"
    /\ pc = "done"
    /\ Len(requested) = 2
    /\ Len(waiting_augmentations) = 1
    /\ Len(trace) > 1

\* C7: once plugins_loaded is True, do_augment_hook consults, in load order,
\* exactly the docks of another class whose augmenters contain the hook,
\* enabled or not; each augmenter gets what the previous one returned, the
\* first the original data; the callback, when given, is called once after
\* each augmenter with what it returned.
C7_ConsultsInLoadOrder ==
    (last.op = "do_augment_hook" /\ plugins_loaded) =>
        /\ trace = ExpectedCalls(last.augmentation)
        /\ dispatched = <<last.augmentation>>

\* A call with a callback consulted two docks, one of them disabled.
C7_Witness ==
    /\ last.op = "do_augment_hook"
    /\ plugins_loaded
    /\ Len(trace) = 4
    /\ \E i \in Loaded :
          /\ ~loaded_plugins[i].is_enabled
          /\ \E n \in 1..Len(trace) :
                trace[n][1] = "augmenter" /\ trace[n][2] = loaded_plugins[i].ep

\* The first place of name in favorites, counted from 1.
FirstPlace(favorites, name) ==
    CHOOSE k \in 1..Len(favorites) :
        /\ favorites[k] = name
        /\ \A j \in 1..Len(favorites) : favorites[j] = name => k <= j

\* C6: after assign_dock_shortcuts, every loaded plugin named in
\* 'favorite_plugins' has the shortcut 'Alt+N', N the first place of its
\* name in the list counted from 1, every other the empty shortcut, and
\* its action is enabled and visible exactly when its dock is enabled; two
\* plugins with different names never hold the same non-empty shortcut.
C6_ShortcutsFollowFavorites ==
    /\ (\/ last.op = "assign_dock_shortcuts"
        \/ /\ last.op = "on_option_changed"
           /\ last.key = "favorite_plugins"
           /\ Len(loaded_plugins) > 0) =>
          \A i \in Loaded :
             /\ loaded_plugins[i].shortcut =
                   IF \E k \in 1..Len(favorite_option) :
                         favorite_option[k] = loaded_plugins[i].name
                   THEN <<"Alt+", FirstPlace(favorite_option, loaded_plugins[i].name)>>
                   ELSE <<>>
             /\ loaded_plugins[i].action_enabled = loaded_plugins[i].is_enabled
             /\ loaded_plugins[i].action_visible = loaded_plugins[i].is_enabled
    /\ \A i, j \in Loaded :
          (/\ loaded_plugins[i].name # loaded_plugins[j].name
           /\ loaded_plugins[i].shortcut # <<>>)
             => loaded_plugins[i].shortcut # loaded_plugins[j].shortcut

\* on_option_changed('favorite_plugins') left two plugins with the shortcuts
\* Alt+1 and Alt+2, one of them disabled.
C6_Witness ==
    /\ last.op = "on_option_changed"
    /\ last.key = "favorite_plugins"
    /\ \E i, j \in Loaded :
          /\ loaded_plugins[i].shortcut = <<"Alt+", 1>>
          /\ loaded_plugins[j].shortcut = <<"Alt+", 2>>
          /\ ~loaded_plugins[j].is_enabled

\* update_enabled_plugins has just returned: called directly, through
\* on_option_changed('enabled_plugins') or at the end of load_plugins.
AfterUpdate ==
    \/ last.op = "update_enabled_plugins"
    \/ last.op = "on_option_changed" /\ last.key = "enabled_plugins"
    \/ last.op = "load_plugins" /\ pc = "done"

\* C5: after update_enabled_plugins every loaded plugin that is not
\* required is enabled exactly when 'enabled_plugins' (default_plugins when
\* unset) holds its name.
C5_EnabledFollowsConfig ==
    AfterUpdate =>
        \A i \in Loaded :
           loaded_plugins[i].name \notin RequiredNames =>
              (loaded_plugins[i].is_enabled
                  <=> loaded_plugins[i].name \in EnabledConfig(enabled_option))

\* The submenu of the category named c, if create_menu added one.
SubmenusOf(c) == {m \in 1..Len(menu) : menu[m].title = <<"&", c>>}

\* The places of the toggle-view action of the plugin made from ep.
PlacesOf(ep) ==
    {<<m, a>> \in (1..Len(menu)) \X (1..Len(loaded_plugins)) :
        a <= Len(menu[m].actions) /\ menu[m].actions[a] = ep}

NameOfEp(ep) == PluginNameOf(Candidates[ep])

\* C8: create_menu adds one submenu for each category with a loaded
\* plugin and none for an empty one, in ascending order of category name;
\* within a submenu the actions are in ascending order of plugin name; every
\* loaded plugin's action is added exactly once, to its category's submenu.
C8_MenuGroupedAndOrdered ==
    last.op = "create_menu" =>
        /\ \A c \in {CategoryList[k][1] : k \in 1..Len(CategoryList)} :
              Cardinality(SubmenusOf(c)) =
                 IF \E i \in Loaded : loaded_plugins[i].category[1] = c THEN 1 ELSE 0
        /\ \A m \in 1..Len(menu) :
              /\ menu[m].title[1] = "&"
              /\ Len(menu[m].actions) > 0
              /\ \A n \in 1..(m - 1) : menu[n].title[2] < menu[m].title[2]
              /\ \A a, b \in 1..Len(menu[m].actions) :
                    a < b => NameOfEp(menu[m].actions[a]) <= NameOfEp(menu[m].actions[b])
        /\ \A i \in Loaded :
              /\ Cardinality(PlacesOf(loaded_plugins[i].ep)) = 1
              /\ \A pl \in PlacesOf(loaded_plugins[i].ep) :
                    menu[pl[1]].title = <<"&", loaded_plugins[i].category[1]>>

\* create_menu added two submenus, the second with two actions whose plugins
\* were loaded in descending order of name.
C8_Witness ==
    /\ last.op = "create_menu"
    /\ Len(menu) = 2
    /\ Len(menu[2].actions) = 2
    /\ \E i, j \in Loaded :
          /\ i < j
          /\ loaded_plugins[i].category = loaded_plugins[j].category
          /\ loaded_plugins[i].name > loaded_plugins[j].name

\* C9: a set_plugin_enabled(name, False) that takes effect leaves the dock
\* disabled and not visible; bring_to_front, called directly or by the
\* dock's needsFocus signal, neither shows nor raises a dock that is
\* disabled; bring_to_front on an enabled dock makes it visible and raises it.
C9_DisabledNeverShown ==
    [][ /\ (/\ last'.op = "set_plugin_enabled"
            /\ ~last'.flag
            /\ last'.arg \notin RequiredNames) =>
              \A i \in Loaded :
                 (/\ loaded_plugins[i].name = last'.arg
                  /\ \A j \in 1..(i - 1) : loaded_plugins[j].name # last'.arg)
                    => /\ ~loaded_plugins'[i].is_enabled
                       /\ ~loaded_plugins'[i].visible
        /\ last'.op \in {"bring_to_front", "needsFocus"} =>
              \A i \in Loaded :
                 ~loaded_plugins[i].is_enabled =>
                    /\ loaded_plugins'[i] = loaded_plugins[i]
                    /\ raised' # i
        /\ (last'.op = "bring_to_front" /\ loaded_plugins[last'.arg].is_enabled) =>
              /\ loaded_plugins'[last'.arg].visible
              /\ loaded_plugins'[last'.arg].is_enabled
              /\ raised' = last'.arg
        /\ \A i \in Loaded :
              (~loaded_plugins[i].visible /\ loaded_plugins'[i].visible)
                 => loaded_plugins[i].is_enabled /\ loaded_plugins'[i].is_enabled
      ]_vars

\* bring_to_front was called on a disabled dock while another dock is
\* visible: the disabled one stayed hidden and was not raised.
C9_Witness ==
    /\ last.op = "bring_to_front"
    /\ ~loaded_plugins[last.arg].is_enabled
    /\ ~loaded_plugins[last.arg].visible
    /\ raised = 0
    /\ \E i \in Loaded : loaded_plugins[i].visible

====
